---- MODULE Spec2Model ----
(***************************************************************************)
(* A model of the document-ingestion pipeline of RAG-Blueprint:            *)
(*   - rag_docling_component (the Chunk-and-Load Processor),               *)
(*     components/rag_docling_component.py                                 *)
(*   - s3_document_provider (the Document Provider),                       *)
(*     components/s3_document_provider.py                                  *)
(* Python strings that the code inspects (endswith, lower, basename,       *)
(* f"doc-{i}") are tuples of one-character strings, so that the string     *)
(* operations are computed and not assumed.                                *)
(***************************************************************************)
EXTENDS Integers, Sequences, FiniteSets, TLC

VARIABLES
    \* ---- rag_docling_component: inputs and environment
    document_path,      \* the InputPath argument
    fs_isfile,          \* os.path.isfile(document_path)
    file_content,       \* what json.load makes of the file at document_path
    \* ---- rag_docling_component: locals
    pc,                 \* position in the function body
    documents,          \* the resolved document list
    llama_documents,    \* the accumulated Chunk Records
    i,                  \* the chunk-id counter
    processing_metrics, \* the metrics dict
    doc_idx,            \* number of completed iterations of "for file_path in documents"
    chunk_count,        \* retained chunks of the current document
    chunk,              \* loop variable of "for chunk in chunks"
    yielded,            \* chunks the lazy chunk sequence has produced for this document
    total_chunks,
    ret,                \* the returned value
    \* ---- rag_docling_component: effects on the collaborators
    convert_calls,      \* arguments of converter.convert, in call order
    raised,             \* exceptions raised inside the document loop: [file, error]
    client_calls,       \* calls on the LlamaStackClient, in call order
    metrics_file,       \* contents of the file at metrics_path
    metrics_writes,     \* number of times the metrics file was written
    \* ---- s3_document_provider: inputs and environment
    pages,              \* what the paginator yields
    file_extensions,
    max_files,
    \* ---- s3_document_provider: locals
    p_pc,
    page_idx,           \* pages taken from the paginator so far
    obj_idx,            \* objects of the current page visited so far
    downloaded_files,
    file_count,
    \* ---- s3_document_provider: effects
    visited,            \* keys bound to "key" (line 71), in order
    download_calls,     \* calls of s3.download_file, in call order: [key, ok]
    local_fs,           \* local path -> key whose bytes the file holds
    output_file,        \* contents of the file at output_path
    \* ---- run_local_pipeline: inputs and environment
    use_local_files,
    local_files_dir,    \* <<>> for None, <<d>> for the string d
    cleanup,
    dir_files,          \* names of the files in local_files_dir
    \* ---- run_local_pipeline: locals and effects
    d_pc,
    temp_dir_exists,    \* the directory mkdtemp created is on disk
    metrics,            \* the metrics read back from metrics.json: <<>> or <<m>>
    d_ret,              \* the value returned to the caller: <<>> or <<m>>
    d_exc               \* the exception raised to the caller: <<>> or <<e>>

proc_vars == <<document_path, fs_isfile, file_content, pc, documents, llama_documents,
               i, processing_metrics, doc_idx, chunk_count, chunk, yielded,
               total_chunks, ret, convert_calls, raised, client_calls, metrics_file,
               metrics_writes>>

prov_vars == <<pages, file_extensions, max_files, p_pc, page_idx, obj_idx,
               downloaded_files, file_count, visited, download_calls, local_fs,
               output_file>>

drv_vars == <<use_local_files, local_files_dir, cleanup, dir_files, d_pc,
              temp_dir_exists, metrics, d_ret, d_exc>>

vars == <<proc_vars, prov_vars, drv_vars>>

-----------------------------------------------------------------------------
(* Bounds of the model                                                     *)

\* longest document list a manifest holds
MaxDocs == 2
\* most chunks the chunker yields for one document
MaxChunks == 2
\* most pages the paginator yields
MaxPages == 2
\* most objects in one page
MaxPageLen == 2
\* largest max_files argument
MaxCap == 2

-----------------------------------------------------------------------------
(* Strings                                                                 *)

UpperChars == <<"A","B","C","D","E","F","G","H","I","J","K","L","M",
                "N","O","P","Q","R","S","T","U","V","W","X","Y","Z">>
LowerChars == <<"a","b","c","d","e","f","g","h","i","j","k","l","m",
                "n","o","p","q","r","s","t","u","v","w","x","y","z">>

\* str.lower() on one character
LowerChar(c) ==
    IF \E k \in 1..Len(UpperChars) : UpperChars[k] = c
    THEN LowerChars[CHOOSE k \in 1..Len(UpperChars) : UpperChars[k] = c]
    ELSE c

\* str.lower()
Lower(s) == [k \in 1..Len(s) |-> LowerChar(s[k])]

\* str.endswith(suffix)
EndsWith(s, suffix) ==
    /\ Len(suffix) <= Len(s)
    /\ SubSeq(s, Len(s) - Len(suffix) + 1, Len(s)) = suffix

\* index of the last "/" of s, 0 when there is none
LastSlash(s) ==
    IF \E k \in 1..Len(s) : s[k] = "/"
    THEN CHOOSE k \in 1..Len(s) : s[k] = "/" /\ \A m \in (k+1)..Len(s) : s[m] # "/"
    ELSE 0

\* os.path.basename(p)
Basename(p) == SubSeq(p, LastSlash(p) + 1, Len(p))

\* os.path.join(a, b) for a relative b
PathJoin(a, b) ==
    IF a = <<>> \/ a[Len(a)] = "/" THEN a \o b ELSE a \o <<"/">> \o b

RECURSIVE Digits(_)
\* str(n) for n >= 0
Digits(n) ==
    LET d == <<"0","1","2","3","4","5","6","7","8","9">>[(n % 10) + 1]
    IN  IF n < 10 THEN <<d>> ELSE Digits(n \div 10) \o <<d>>

\* f"doc-{n}"
DocId(n) == <<"d","o","c","-">> \o Digits(n)

\* dict[key] = value
SetKey(d, k, v) == [x \in (DOMAIN d) \cup {k} |-> IF x = k THEN v ELSE d[x]]

-----------------------------------------------------------------------------
(* rag_docling_component: the values it works on                           *)

\* the input paths tried: a manifest name and a plain document name
ManifestPath == <<"m",".","j","s","o","n">>
PlainPath    == <<"d",".","p","d","f">>

\* document paths a manifest can list
Paths == {<<"a">>, <<"b">>}
PathLists == UNION {[1..n -> Paths] : n \in 0..MaxDocs}

\* JSON values json.load can return
JsonList(l) == [kind |-> "list", items |-> l, dict |-> <<>>]
JsonDict(d) == [kind |-> "dict", items |-> <<>>, dict |-> d]
JsonScalar  == [kind |-> "scalar", items |-> <<>>, dict |-> <<>>]

ManifestValues ==
    {JsonList(l) : l \in PathLists}
    \cup {JsonDict("document_paths" :> l) : l \in PathLists}
    \cup {JsonDict("documents" :> l) : l \in PathLists}
    \cup {JsonDict(("document_paths" :> l) @@ ("documents" :> << <<"b">> >>)) : l \in PathLists}
    \cup {JsonDict("metadata" :> <<>>), JsonDict(<<>>), JsonScalar}

\* json.load either returns a value or raises json.JSONDecodeError
FileContents ==
    {[ok |-> TRUE, value |-> v] : v \in ManifestValues}
    \cup {[ok |-> FALSE, value |-> JsonScalar]}

\* DocItemLabel values, and the doc_items label lists the chunker's chunks carry
ItemLists == { <<>>, <<"text">>, <<"paragraph">>, <<"table">>,
               <<"table", "paragraph">>, <<"picture", "caption">> }
Chunks == {[text |-> "t", doc_items |-> its] : its \in ItemLists}
NoChunk == [text |-> "", doc_items |-> <<>>]

\* str(e) of the exceptions the collaborators raise
ConvertError  == "convert error"
ChunkError    == "chunk error"
RegisterError == "register error"
InsertError   == "insert error"

\* the values of vector_db_registration and vector_db_insertion: the string "success"
\* (as a one-field record, so that it compares with the failure dict) or
\* {"status": "failed", "error": msg}
Success == [status |-> "success"]
Failed(msg) == [status |-> "failed", error |-> msg]

-----------------------------------------------------------------------------
(* rag_docling_component: helpers                                          *)

\* Step 2 with the JSONDecodeError handler leaving the list empty
ResolveDocumentsNoFallback(path, isfile, content) ==
    IF isfile
    THEN IF EndsWith(path, <<".","j","s","o","n">>)
         THEN IF content.ok
              THEN LET file_data == content.value IN
                   IF file_data.kind = "list"
                   THEN file_data.items
                   ELSE IF file_data.kind = "dict" /\ "document_paths" \in DOMAIN file_data.dict
                   THEN file_data.dict["document_paths"]
                   ELSE IF file_data.kind = "dict" /\ "documents" \in DOMAIN file_data.dict
                   THEN file_data.dict["documents"]
                   ELSE <<path>>
              ELSE <<>>
         ELSE <<path>>
    ELSE <<>>

\* Step 2, lines 53-71
ResolveDocuments(path, isfile, content) ==
    IF isfile
    THEN IF EndsWith(path, <<".","j","s","o","n">>)
         THEN IF content.ok
              THEN LET file_data == content.value IN
                   IF file_data.kind = "list"
                   THEN file_data.items
                   ELSE IF file_data.kind = "dict" /\ "document_paths" \in DOMAIN file_data.dict
                   THEN file_data.dict["document_paths"]
                   ELSE IF file_data.kind = "dict" /\ "documents" \in DOMAIN file_data.dict
                   THEN file_data.dict["documents"]
                   ELSE <<path>>
              ELSE <<path>>
         ELSE <<path>>
    ELSE <<>>

\* the filter with the paragraph label forgotten
IsRetainedTextOnly(c) ==
    \E k \in 1..Len(c.doc_items) : c.doc_items[k] = "text"

\* lines 99-102: any(c.label in [TEXT, PARAGRAPH] for c in chunk.meta.doc_items)
IsRetained(c) ==
    \E k \in 1..Len(c.doc_items) : c.doc_items[k] \in {"text", "paragraph"}

\* the id taken from the per-document counter
PerDocumentId(n, cc) == cc + 1

\* line 103: i += 1; the counter is the run's, chunk_count is the document's
NextId(n, cc) == n + 1

\* the record built with the counter's value before line 103
ChunkRecordIdBeforeIncrement(n, c, file_path) ==
    [document_id |-> DocId(n - 1), content |-> c.text, mime_type |-> "text/plain",
     metadata |-> [source |-> file_path]]

\* lines 105-112
ChunkRecord(n, c, file_path) ==
    [document_id |-> DocId(n), content |-> c.text, mime_type |-> "text/plain",
     metadata |-> [source |-> file_path]]

\* lines 85-89
InitialMetrics(docs) ==
    [document_count |-> Len(docs), processed_documents |-> <<>>, failed_documents |-> <<>>]

\* lines 114-117
RecordProcessed(pm, file_path, n) ==
    [pm EXCEPT !.processed_documents = Append(@, [file |-> file_path, chunks |-> n])]

\* the except clause that only logs
RecordFailedLogOnly(pm, file_path, msg) == pm

\* lines 118-124
RecordFailed(pm, file_path, msg) ==
    [pm EXCEPT !.failed_documents = Append(@, [file |-> file_path, error |-> msg])]

\* the except clause that leaves the loop
IndexAfterFailureBreak(idx, n) == n

\* the except clause that tries the same document again
IndexAfterFailureRetry(idx, n) == idx

\* the for loop goes on with the next document after the except clause (line 91)
IndexAfterFailure(idx, n) == idx + 1

\* a failed registration that skips Step 5
PcAfterRegisterSkip(ok) == IF ok THEN "insert" ELSE "write"

\* after the except clause of Step 4 the function falls through to Step 5 (line 150)
PcAfterRegister(ok) == "insert"

\* a failed insertion that is raised again
PcAfterInsertReraise(ok) == IF ok THEN "write" ELSE "raised"

\* after the except clause of Step 5 the function falls through to the write (line 168)
PcAfterInsert(ok) == "write"

\* line 152: documents=llama_documents
InsertArgument(lds) == lds

-----------------------------------------------------------------------------
(* rag_docling_component: Init and actions                                 *)

ProcInputs ==
    /\ \/ /\ document_path = ManifestPath
          /\ fs_isfile = TRUE
          /\ file_content \in FileContents
       \/ /\ document_path \in {ManifestPath, PlainPath}
          /\ fs_isfile \in BOOLEAN
          /\ file_content = [ok |-> FALSE, value |-> JsonScalar]

ProcFresh ==
    /\ documents = <<>>
    /\ llama_documents = <<>>
    /\ i = 0
    /\ processing_metrics = <<>>
    /\ doc_idx = 0
    /\ chunk_count = 0
    /\ chunk = NoChunk
    /\ yielded = 0
    /\ total_chunks = 0
    /\ ret = <<>>
    /\ convert_calls = <<>>
    /\ raised = <<>>
    /\ client_calls = <<>>
    /\ metrics_file = <<>>
    /\ metrics_writes = 0

ProcLocals == pc = "start" /\ ProcFresh

ProcInit == ProcInputs /\ ProcLocals

\* rag_docling_component is not called
ProcIdle ==
    /\ document_path = PlainPath
    /\ fs_isfile = FALSE
    /\ file_content = [ok |-> FALSE, value |-> JsonScalar]
    /\ pc = "idle"
    /\ ProcFresh

file_path == documents[doc_idx + 1]

\* lines 49-89: Steps 1-2 and the set-up of Step 3
Resolve ==
    /\ pc = "start"
    /\ documents' = ResolveDocuments(document_path, fs_isfile, file_content)
    /\ llama_documents' = <<>>
    /\ i' = 0
    /\ processing_metrics' = InitialMetrics(documents')
    /\ pc' = "for_docs"
    /\ UNCHANGED <<document_path, fs_isfile, file_content, doc_idx, chunk_count, chunk,
                   yielded, total_chunks, ret, convert_calls, raised, client_calls,
                   metrics_file, metrics_writes>>

\* lines 91-96: converter.convert and chunker.chunk return
ConvertOk ==
    /\ pc = "for_docs"
    /\ doc_idx < Len(documents)
    /\ convert_calls' = Append(convert_calls, file_path)
    /\ chunk_count' = 0
    /\ yielded' = 0
    /\ pc' = "for_chunks"
    /\ UNCHANGED <<document_path, fs_isfile, file_content, documents, llama_documents, i,
                   processing_metrics, doc_idx, chunk, total_chunks, ret, raised,
                   client_calls, metrics_file, metrics_writes>>

\* lines 91-95, 118-124: converter.convert or chunker.chunk raises
ConvertFail ==
    /\ pc = "for_docs"
    /\ doc_idx < Len(documents)
    /\ convert_calls' = Append(convert_calls, file_path)
    /\ raised' = Append(raised, [file |-> file_path, error |-> ConvertError])
    /\ processing_metrics' = RecordFailed(processing_metrics, file_path, ConvertError)
    /\ doc_idx' = IndexAfterFailure(doc_idx, Len(documents))
    /\ UNCHANGED <<document_path, fs_isfile, file_content, pc, documents, llama_documents,
                   i, chunk_count, chunk, yielded, total_chunks, ret, client_calls,
                   metrics_file, metrics_writes>>

\* lines 98-112: the chunk sequence yields one more chunk
ChunkYield ==
    /\ pc = "for_chunks"
    /\ yielded < MaxChunks
    /\ \E c \in Chunks :
          /\ chunk' = c
          /\ yielded' = yielded + 1
          /\ IF IsRetained(c)
             THEN /\ i' = NextId(i, chunk_count)
                  /\ chunk_count' = chunk_count + 1
                  /\ llama_documents' = Append(llama_documents, ChunkRecord(i', c, file_path))
             ELSE UNCHANGED <<i, chunk_count, llama_documents>>
    /\ UNCHANGED <<document_path, fs_isfile, file_content, pc, documents,
                   processing_metrics, doc_idx, total_chunks, ret, convert_calls, raised,
                   client_calls, metrics_file, metrics_writes>>

\* lines 98, 118-124: the chunk sequence raises while it is iterated
ChunkRaise ==
    /\ pc = "for_chunks"
    /\ raised' = Append(raised, [file |-> file_path, error |-> ChunkError])
    /\ processing_metrics' = RecordFailed(processing_metrics, file_path, ChunkError)
    /\ doc_idx' = IndexAfterFailure(doc_idx, Len(documents))
    /\ chunk' = NoChunk
    /\ pc' = "for_docs"
    /\ UNCHANGED <<document_path, fs_isfile, file_content, documents, llama_documents, i,
                   chunk_count, yielded, total_chunks, ret, convert_calls, client_calls,
                   metrics_file, metrics_writes>>

\* lines 98, 114-117: the chunk sequence is exhausted
ChunksEnd ==
    /\ pc = "for_chunks"
    /\ processing_metrics' = RecordProcessed(processing_metrics, file_path, chunk_count)
    /\ doc_idx' = doc_idx + 1
    /\ chunk' = NoChunk
    /\ pc' = "for_docs"
    /\ UNCHANGED <<document_path, fs_isfile, file_content, documents, llama_documents, i,
                   chunk_count, yielded, total_chunks, ret, convert_calls, raised,
                   client_calls, metrics_file, metrics_writes>>

\* lines 126-128: the document loop is over
Totals ==
    /\ pc = "for_docs"
    /\ doc_idx >= Len(documents)
    /\ total_chunks' = Len(llama_documents)
    /\ processing_metrics' = SetKey(processing_metrics, "total_chunks", total_chunks')
    /\ pc' = "register"
    /\ UNCHANGED <<document_path, fs_isfile, file_content, documents, llama_documents, i,
                   doc_idx, chunk_count, chunk, yielded, ret, convert_calls, raised,
                   client_calls, metrics_file, metrics_writes>>

\* lines 131-139: client.vector_dbs.register returns
RegisterOk ==
    /\ pc = "register"
    /\ client_calls' = Append(client_calls, [op |-> "register", ok |-> TRUE, documents |-> <<>>])
    /\ processing_metrics' = SetKey(processing_metrics, "vector_db_registration", Success)
    /\ pc' = PcAfterRegister(TRUE)
    /\ UNCHANGED <<document_path, fs_isfile, file_content, documents, llama_documents, i,
                   doc_idx, chunk_count, chunk, yielded, total_chunks, ret, convert_calls,
                   raised, metrics_file, metrics_writes>>

\* lines 131-137, 141-147: client.vector_dbs.register raises
RegisterFail ==
    /\ pc = "register"
    /\ client_calls' = Append(client_calls, [op |-> "register", ok |-> FALSE, documents |-> <<>>])
    /\ processing_metrics' =
           SetKey(processing_metrics, "vector_db_registration", Failed(RegisterError))
    /\ pc' = PcAfterRegister(FALSE)
    /\ UNCHANGED <<document_path, fs_isfile, file_content, documents, llama_documents, i,
                   doc_idx, chunk_count, chunk, yielded, total_chunks, ret, convert_calls,
                   raised, metrics_file, metrics_writes>>

\* lines 150-157: client.tool_runtime.rag_tool.insert returns
InsertOk ==
    /\ pc = "insert"
    /\ client_calls' = Append(client_calls,
           [op |-> "insert", ok |-> TRUE,
            documents |-> InsertArgument(llama_documents)])
    /\ processing_metrics' = SetKey(processing_metrics, "vector_db_insertion", Success)
    /\ pc' = PcAfterInsert(TRUE)
    /\ UNCHANGED <<document_path, fs_isfile, file_content, documents, llama_documents, i,
                   doc_idx, chunk_count, chunk, yielded, total_chunks, ret, convert_calls,
                   raised, metrics_file, metrics_writes>>

\* lines 150-155, 159-165: client.tool_runtime.rag_tool.insert raises
InsertFail ==
    /\ pc = "insert"
    /\ client_calls' = Append(client_calls,
           [op |-> "insert", ok |-> FALSE,
            documents |-> InsertArgument(llama_documents)])
    /\ processing_metrics' =
           SetKey(processing_metrics, "vector_db_insertion", Failed(InsertError))
    /\ pc' = PcAfterInsert(FALSE)
    /\ UNCHANGED <<document_path, fs_isfile, file_content, documents, llama_documents, i,
                   doc_idx, chunk_count, chunk, yielded, total_chunks, ret, convert_calls,
                   raised, metrics_file, metrics_writes>>

\* lines 167-171: json.dump of the metrics, then return total_chunks
WriteMetrics ==
    /\ pc = "write"
    /\ metrics_file' = <<processing_metrics>>
    /\ metrics_writes' = metrics_writes + 1
    /\ ret' = <<total_chunks>>
    /\ pc' = "done"
    /\ UNCHANGED <<document_path, fs_isfile, file_content, documents, llama_documents, i,
                   processing_metrics, doc_idx, chunk_count, chunk, yielded, total_chunks,
                   convert_calls, raised, client_calls>>

-----------------------------------------------------------------------------
(* s3_document_provider: the values it works on                            *)

\* the objects of the bucket, in the order list_objects_v2 returns them
Bucket == <<
    [Key |-> <<"a","/","r",".","p","d","f">>, Size |-> 10, LastModified |-> "d1"],
    [Key |-> <<"b","/","r",".","p","d","f">>, Size |-> 20, LastModified |-> "d2"],
    [Key |-> <<"n",".","t","x","t">>,         Size |-> 30, LastModified |-> "d3"],
    [Key |-> <<"s",".","P","D","F">>,         Size |-> 40, LastModified |-> "d4"] >>

\* the file_extensions arguments tried
ExtLists == { << <<".","p","d","f">> >>,
              << <<".","P","D","F">> >>,
              << <<".","t","x","t">>, <<".","p","d","f">> >> }

\* the download_dir argument
download_dir == <<"/","t">>

RECURSIVE SortedSeq(_)
SortedSeq(S) ==
    IF S = {} THEN <<>>
    ELSE LET m == CHOOSE x \in S : \A y \in S : x <= y
         IN  <<m>> \o SortedSeq(S \ {m})

\* a page of the listing: with the objects of the index set S, or without 'Contents'
PageOf(S) ==
    [has_contents |-> S # {},
     Contents |-> [k \in 1..Cardinality(S) |-> Bucket[SortedSeq(S)[k]]]]

\* the listings: every split into pages of every selection of the bucket's objects
Layouts ==
    UNION { { f \in [1..n -> SUBSET (1..Len(Bucket))] :
                /\ \A p \in 1..n : Cardinality(f[p]) <= MaxPageLen
                /\ \A p \in 1..n : \A q \in (p+1)..n :
                       \A a \in f[p] : \A b \in f[q] : a < b }
            : n \in 0..MaxPages }
Listings == { [p \in DOMAIN f |-> PageOf(f[p])] : f \in Layouts }

\* datetime.isoformat()
IsoFormat(dt) == <<"iso", dt>>

-----------------------------------------------------------------------------
(* s3_document_provider: helpers                                           *)

\* the filter that compares the key and the extension as they are
MatchesCaseSensitive(key, exts) ==
    \E k \in 1..Len(exts) : EndsWith(key, exts[k])

\* line 74: any(key.lower().endswith(ext.lower()) for ext in file_extensions)
Matches(key, exts) ==
    \E k \in 1..Len(exts) : EndsWith(Lower(key), Lower(exts[k]))

\* line 78
LocalPath(dir, key) == PathJoin(dir, Basename(key))

\* lines 91 and 98: file_count >= max_files
CapReached(fc, mf) == fc >= mf

\* lines 83-88
Detail(obj, local_file_path) ==
    [file_path |-> local_file_path, key |-> obj.Key, size |-> obj.Size,
     last_modified |-> IsoFormat(obj.LastModified)]

\* a failed download that is counted
CountAfterFailureCounted(fc) == fc + 1

\* lines 95-96: the except clause leaves the counter alone
CountAfterFailure(fc) == fc

\* lines 102-110
Result(files) ==
    [document_paths |-> [k \in 1..Len(files) |-> files[k].file_path],
     metadata |-> [bucket |-> "bucket", endpoint |-> "endpoint",
                   file_count |-> Len(files), details |-> files]]

-----------------------------------------------------------------------------
(* s3_document_provider: Init and actions                                  *)

ProvFresh ==
    /\ page_idx = 0
    /\ obj_idx = 0
    /\ downloaded_files = <<>>
    /\ file_count = 0
    /\ visited = <<>>
    /\ download_calls = <<>>
    /\ local_fs = <<>>
    /\ output_file = <<>>

ProvLocals == p_pc = "pages" /\ ProvFresh

ProvInit ==
    /\ pages \in Listings
    /\ file_extensions \in ExtLists
    /\ max_files \in 0..MaxCap
    /\ ProvLocals

\* s3_document_provider is not called
ProvIdle ==
    /\ pages = <<>>
    /\ file_extensions = << <<".","p","d","f">> >>
    /\ max_files = 0
    /\ p_pc = "idle"
    /\ ProvFresh

page == pages[page_idx]
obj == page.Contents[obj_idx + 1]
key == obj.Key
local_file_path == LocalPath(download_dir, key)

\* lines 66-68: the next page has no 'Contents'
SkipPage ==
    /\ p_pc = "pages"
    /\ page_idx < Len(pages)
    /\ ~pages[page_idx + 1].has_contents
    /\ page_idx' = page_idx + 1
    /\ UNCHANGED <<pages, file_extensions, max_files, p_pc, obj_idx, downloaded_files,
                   file_count, visited, download_calls, local_fs, output_file>>

\* lines 66-70: the next page has 'Contents'
TakePage ==
    /\ p_pc = "pages"
    /\ page_idx < Len(pages)
    /\ pages[page_idx + 1].has_contents
    /\ page_idx' = page_idx + 1
    /\ obj_idx' = 0
    /\ p_pc' = "objects"
    /\ UNCHANGED <<pages, file_extensions, max_files, downloaded_files, file_count,
                   visited, download_calls, local_fs, output_file>>

\* line 66: the paginator is exhausted
PagesExhausted ==
    /\ p_pc = "pages"
    /\ page_idx >= Len(pages)
    /\ p_pc' = "write"
    /\ UNCHANGED <<pages, file_extensions, max_files, page_idx, obj_idx, downloaded_files,
                   file_count, visited, download_calls, local_fs, output_file>>

\* lines 70-75: the object's key has none of the extensions
SkipObject ==
    /\ p_pc = "objects"
    /\ obj_idx < Len(page.Contents)
    /\ ~Matches(key, file_extensions)
    /\ visited' = Append(visited, key)
    /\ obj_idx' = obj_idx + 1
    /\ UNCHANGED <<pages, file_extensions, max_files, p_pc, page_idx, downloaded_files,
                   file_count, download_calls, local_fs, output_file>>

\* lines 70-93, 98-99: the download succeeds
DownloadOk ==
    /\ p_pc = "objects"
    /\ obj_idx < Len(page.Contents)
    /\ Matches(key, file_extensions)
    /\ visited' = Append(visited, key)
    /\ download_calls' = Append(download_calls, [key |-> key, ok |-> TRUE])
    /\ local_fs' = SetKey(local_fs, local_file_path, key)
    /\ downloaded_files' = Append(downloaded_files, Detail(obj, local_file_path))
    /\ file_count' = file_count + 1
    /\ obj_idx' = obj_idx + 1
    /\ p_pc' = IF CapReached(file_count', max_files) THEN "write" ELSE "objects"
    /\ UNCHANGED <<pages, file_extensions, max_files, page_idx, output_file>>

\* lines 70-82, 95-96: the download raises
DownloadFail ==
    /\ p_pc = "objects"
    /\ obj_idx < Len(page.Contents)
    /\ Matches(key, file_extensions)
    /\ visited' = Append(visited, key)
    /\ download_calls' = Append(download_calls, [key |-> key, ok |-> FALSE])
    /\ file_count' = CountAfterFailure(file_count)
    /\ obj_idx' = obj_idx + 1
    /\ UNCHANGED <<pages, file_extensions, max_files, p_pc, page_idx, downloaded_files,
                   local_fs, output_file>>

\* lines 70, 98-99: the page's objects are exhausted
PageEnd ==
    /\ p_pc = "objects"
    /\ obj_idx >= Len(page.Contents)
    /\ p_pc' = IF CapReached(file_count, max_files) THEN "write" ELSE "pages"
    /\ UNCHANGED <<pages, file_extensions, max_files, page_idx, obj_idx, downloaded_files,
                   file_count, visited, download_calls, local_fs, output_file>>

\* lines 101-118
WriteManifest ==
    /\ p_pc = "write"
    /\ output_file' = <<Result(downloaded_files)>>
    /\ p_pc' = "done"
    /\ UNCHANGED <<pages, file_extensions, max_files, page_idx, obj_idx, downloaded_files,
                   file_count, visited, download_calls, local_fs>>

-----------------------------------------------------------------------------
(* Specifications                                                          *)

\* run_local_pipeline is not called
DrvIdle ==
    /\ use_local_files = FALSE
    /\ local_files_dir = <<>>
    /\ cleanup = TRUE
    /\ dir_files = <<>>
    /\ d_pc = "idle"
    /\ temp_dir_exists = FALSE
    /\ metrics = <<>>
    /\ d_ret = <<>>
    /\ d_exc = <<>>

\* one run of rag_docling_component
NextProc ==
    \/ Resolve /\ UNCHANGED <<prov_vars, drv_vars>>
    \/ ConvertOk /\ UNCHANGED <<prov_vars, drv_vars>>
    \/ ConvertFail /\ UNCHANGED <<prov_vars, drv_vars>>
    \/ ChunkYield /\ UNCHANGED <<prov_vars, drv_vars>>
    \/ ChunkRaise /\ UNCHANGED <<prov_vars, drv_vars>>
    \/ ChunksEnd /\ UNCHANGED <<prov_vars, drv_vars>>
    \/ Totals /\ UNCHANGED <<prov_vars, drv_vars>>
    \/ RegisterOk /\ UNCHANGED <<prov_vars, drv_vars>>
    \/ RegisterFail /\ UNCHANGED <<prov_vars, drv_vars>>
    \/ InsertOk /\ UNCHANGED <<prov_vars, drv_vars>>
    \/ InsertFail /\ UNCHANGED <<prov_vars, drv_vars>>
    \/ WriteMetrics /\ UNCHANGED <<prov_vars, drv_vars>>

InitProc == ProcInit /\ ProvIdle /\ DrvIdle

SpecProc == InitProc /\ [][NextProc]_vars

\* one run of s3_document_provider
NextProv ==
    \/ SkipPage /\ UNCHANGED <<proc_vars, drv_vars>>
    \/ TakePage /\ UNCHANGED <<proc_vars, drv_vars>>
    \/ PagesExhausted /\ UNCHANGED <<proc_vars, drv_vars>>
    \/ SkipObject /\ UNCHANGED <<proc_vars, drv_vars>>
    \/ DownloadOk /\ UNCHANGED <<proc_vars, drv_vars>>
    \/ DownloadFail /\ UNCHANGED <<proc_vars, drv_vars>>
    \/ PageEnd /\ UNCHANGED <<proc_vars, drv_vars>>
    \/ WriteManifest /\ UNCHANGED <<proc_vars, drv_vars>>

InitProv == ProvInit /\ ProcIdle /\ DrvIdle

SpecProv == InitProv /\ [][NextProv]_vars

\* one run of either component
InitRuns == InitProc \/ InitProv

NextRuns == NextProc \/ NextProv

SpecRuns == InitRuns /\ [][NextRuns]_vars

-----------------------------------------------------------------------------
(* Claims about rag_docling_component, checked under SpecProc              *)

\* the manifest at document_path lists its documents in one of the three shapes
IsListingManifest ==
    /\ fs_isfile
    /\ EndsWith(document_path, <<".","j","s","o","n">>)
    /\ file_content.ok
    /\ \/ file_content.value.kind = "list"
       \/ /\ file_content.value.kind = "dict"
          /\ DOMAIN file_content.value.dict \cap {"document_paths", "documents"} # {}

\* the document paths such a manifest lists
ListedPaths ==
    LET v == file_content.value IN
    IF v.kind = "list" THEN v.items
    ELSE IF "document_paths" \in DOMAIN v.dict THEN v.dict["document_paths"]
    ELSE v.dict["documents"]

\* number of entries of a metrics list that name the file p
CountFile(entries, p) == Cardinality({k \in 1..Len(entries) : entries[k].file = p})

\* number of occurrences of p in a list of paths
CountPath(paths, p) == Cardinality({k \in 1..Len(paths) : paths[k] = p})

\* C1: for a manifest listing N paths the written metrics have document_count = N and
\* len(processed_documents) + len(failed_documents) = N, every listed path being in
\* exactly one of the two lists once per occurrence.
C1_EveryDocumentAccounted ==
    (metrics_file # <<>> /\ IsListingManifest) =>
        LET m == metrics_file[1]
            N == Len(ListedPaths)
        IN  /\ m.document_count = N
            /\ Len(m.processed_documents) + Len(m.failed_documents) = N
            /\ \A p \in Paths :
                   CountFile(m.processed_documents, p) + CountFile(m.failed_documents, p)
                       = CountPath(ListedPaths, p)

C1_Witness ==
    /\ metrics_file # <<>>
    /\ IsListingManifest
    /\ file_content.value.kind = "dict"
    /\ Len(ListedPaths) = 2
    /\ ListedPaths[1] = ListedPaths[2]
    /\ Len(metrics_file[1].processed_documents) = 1
    /\ Len(metrics_file[1].failed_documents) = 1

\* C2: an exception raised while converting or chunking a document is recorded as
\* {file, error} in failed_documents, and the documents are attempted one at a time in
\* manifest order, all of them, whatever fails.
C2_FailureDoesNotStopLoop ==
    /\ pc # "start" => processing_metrics.failed_documents = raised
    /\ convert_calls = SubSeq(documents, 1, Len(convert_calls))
    /\ Len(convert_calls) = doc_idx + (IF pc = "for_chunks" THEN 1 ELSE 0)
    /\ pc \in {"register", "insert", "write", "done"} => convert_calls = documents

C2_Witness ==
    /\ pc = "done"
    /\ Len(documents) = 2
    /\ Len(raised) = 1
    /\ raised[1] = [file |-> documents[1], error |-> ChunkError]
    /\ processing_metrics.processed_documents = <<[file |-> documents[2], chunks |-> 1]>>

\* C3: a failed registration is recorded as {status: failed, error} and the insertion
\* is still attempted, with all the accumulated Chunk Records.
C3_InsertAfterFailedRegistration ==
    (Len(client_calls) >= 1 /\ ~client_calls[1].ok) =>
        /\ client_calls[1].op = "register"
        /\ processing_metrics.vector_db_registration = Failed(RegisterError)
        /\ pc \in {"insert", "write", "done"}
        /\ pc \in {"write", "done"} =>
              /\ Len(client_calls) = 2
              /\ client_calls[2].op = "insert"
              /\ client_calls[2].documents = llama_documents
              /\ Len(client_calls[2].documents) = total_chunks
              /\ total_chunks = i

C3_Witness ==
    /\ pc = "done"
    /\ ~client_calls[1].ok
    /\ client_calls[2].op = "insert"
    /\ Len(client_calls[2].documents) = 2

MetricsKeys == {"document_count", "processed_documents", "failed_documents",
                "total_chunks", "vector_db_registration", "vector_db_insertion"}

RECURSIVE ParseDigits(_)
\* int(s) for a string of decimal digits
ParseDigits(s) ==
    IF s = <<>> THEN 0
    ELSE ParseDigits(SubSeq(s, 1, Len(s) - 1)) * 10
         + (CHOOSE d \in 0..9 : Digits(d) = <<s[Len(s)]>>)

\* the N of a Chunk Record's id "doc-N"
IdNumber(rec) == ParseDigits(SubSeq(rec.document_id, 5, Len(rec.document_id)))

\* C5: the ids of the retained chunks are pairwise distinct and strictly increasing in
\* retention order across all the documents of the run, and the counter is never
\* behind an id already given, also after a document failed.
C5_IdsDistinctIncreasing ==
    /\ \A j \in 1..Len(llama_documents) : \A k \in (j+1)..Len(llama_documents) :
          /\ llama_documents[j].document_id # llama_documents[k].document_id
          /\ IdNumber(llama_documents[j]) < IdNumber(llama_documents[k])
    /\ \A k \in 1..Len(llama_documents) :
          /\ SubSeq(llama_documents[k].document_id, 1, 4) = <<"d","o","c","-">>
          /\ IdNumber(llama_documents[k]) <= i

C5_Witness ==
    /\ Len(raised) = 1
    /\ Len(llama_documents) = 3
    /\ llama_documents[1].metadata.source = raised[1].file
    /\ llama_documents[1].metadata.source # llama_documents[3].metadata.source

\* the set of labels of a chunk's source items
LabelSet(c) == {c.doc_items[k] : k \in 1..Len(c.doc_items)}

\* C6: a chunk the chunker yields becomes a Chunk Record exactly when its label set
\* holds text or paragraph; otherwise it is dropped and nothing else changes.
C6_RetainedIffProse ==
    [][yielded' = yielded + 1 =>
          IF LabelSet(chunk') \cap {"text", "paragraph"} # {}
          THEN /\ Len(llama_documents') = Len(llama_documents) + 1
               /\ SubSeq(llama_documents', 1, Len(llama_documents)) = llama_documents
               /\ llama_documents'[Len(llama_documents')].content = chunk'.text
               /\ llama_documents'[Len(llama_documents')].metadata.source = file_path
               /\ chunk_count' = chunk_count + 1
          ELSE /\ llama_documents' = llama_documents
               /\ chunk_count' = chunk_count
               /\ i' = i]_vars

C6_Witness ==
    /\ pc = "for_chunks"
    /\ yielded = 2
    /\ chunk.doc_items = <<"table", "paragraph">>
    /\ chunk_count = 1
    /\ Len(llama_documents) = 1
    /\ doc_idx = 1

\* C10 as stated: a manifest in one of the three shapes gives the list it holds, and
\* every other input gives the one-element list of the input path.
C10_ResolvedOrSinglePath ==
    pc # "start" =>
        IF IsListingManifest
        THEN documents = ListedPaths
        ELSE documents = <<document_path>>

\* C10 as amended: a manifest in one of the three shapes gives the list it holds
\* (document_paths before documents); an existing file that is no such manifest gives
\* the one-element list of the input path; a path that is no existing file gives the
\* empty list.
C10_ResolvedOrSinglePathIfFile ==
    pc # "start" =>
        IF IsListingManifest
        THEN documents = ListedPaths
        ELSE IF fs_isfile
        THEN documents = <<document_path>>
        ELSE documents = <<>>

C10_Witness ==
    /\ pc = "for_chunks"
    /\ fs_isfile
    /\ document_path = ManifestPath
    /\ ~file_content.ok
    /\ documents = <<ManifestPath>>
    /\ convert_calls = <<ManifestPath>>

-----------------------------------------------------------------------------
(* Claims about s3_document_provider, checked under SpecProv               *)

\* the keys of the calls of download_file, and of those that returned
CallKeys == [k \in 1..Len(download_calls) |-> download_calls[k].key]
IsOkCall(c) == c.ok
OkCalls == SelectSeq(download_calls, IsOkCall)
OkKeys == [k \in 1..Len(OkCalls) |-> OkCalls[k].key]

RECURSIVE ListedKeys(_)
\* the keys of a listing, page after page
ListedKeys(ps) ==
    IF ps = <<>> THEN <<>>
    ELSE LET p == ps[Len(ps)]
         IN  ListedKeys(SubSeq(ps, 1, Len(ps) - 1))
             \o [k \in 1..Len(p.Contents) |-> p.Contents[k].Key]

\* C7 as stated: never more than max_files objects are downloaded, and the manifest
\* never lists more than max_files paths.
C7_AtMostMaxFiles ==
    /\ Len(OkCalls) <= max_files
    /\ output_file # <<>> => Len(output_file[1].document_paths) <= max_files

\* the key ends with the extension, letter case apart
EndsWithIgnoringCase(k, ext) ==
    /\ Len(ext) <= Len(k)
    /\ \A n \in 1..Len(ext) : LowerChar(k[Len(k) - Len(ext) + n]) = LowerChar(ext[n])

KeyAllowed(k) ==
    \E n \in 1..Len(file_extensions) : EndsWithIgnoringCase(k, file_extensions[n])

\* C8: a failed download is skipped: it is in neither document_paths nor details and
\* is not counted; the enumeration ends before the last object only when the cap is
\* reached; document_paths is the local paths of the downloads that succeeded, in
\* order, and metadata.file_count is its length.
C8_FailedDownloadSkipped ==
    /\ file_count = Len(OkCalls)
    /\ [k \in 1..Len(downloaded_files) |-> downloaded_files[k].key] = OkKeys
    /\ (p_pc \in {"write", "done"} /\ file_count < max_files) =>
           CallKeys = SelectSeq(ListedKeys(pages), KeyAllowed)
    /\ p_pc = "done" =>
           LET result == output_file[1] IN
           /\ result.document_paths =
                  [k \in 1..Len(OkKeys) |-> PathJoin(download_dir, Basename(OkKeys[k]))]
           /\ result.metadata.file_count = Len(result.document_paths)
           /\ [k \in 1..Len(result.metadata.details) |-> result.metadata.details[k].key]
                  = OkKeys

C8_Witness ==
    /\ p_pc = "done"
    /\ Len(pages) = 2
    /\ Len(download_calls) = 3
    /\ ~download_calls[1].ok
    /\ download_calls[2].ok
    /\ download_calls[3].ok
    /\ max_files = 2

\* C9: an object is passed to download_file exactly when its key ends, letter case
\* apart, with one of the allowed extensions; other keys are never downloaded and
\* never listed in the manifest.
C9_OnlyAllowedExtensions ==
    /\ CallKeys = SelectSeq(visited, KeyAllowed)
    /\ \A k \in 1..Len(downloaded_files) : KeyAllowed(downloaded_files[k].key)
    /\ \A path \in DOMAIN local_fs : KeyAllowed(local_fs[path])

C9_Witness ==
    /\ file_extensions = << <<".","p","d","f">> >>
    /\ visited = << <<"n",".","t","x","t">>, <<"s",".","P","D","F">> >>
    /\ CallKeys = << <<"s",".","P","D","F">> >>
    /\ p_pc = "done"

-----------------------------------------------------------------------------
(* Further claims about rag_docling_component, checked under SpecProc      *)

RECURSIVE SumChunks(_)
\* sum of the chunks fields of a list of processed_documents entries
SumChunks(entries) ==
    IF entries = <<>> THEN 0
    ELSE entries[Len(entries)].chunks + SumChunks(SubSeq(entries, 1, Len(entries) - 1))

\* C15 as stated: the written total_chunks is the sum of the chunks fields of
\* processed_documents, so that a document that ends in failed_documents adds no
\* Chunk Record to the inserted set and uses no chunk id.
C15_TotalIsSumOfProcessed ==
    pc = "done" =>
        /\ metrics_file[1].total_chunks = SumChunks(metrics_file[1].processed_documents)
        /\ Len(client_calls[2].documents) = SumChunks(metrics_file[1].processed_documents)
        /\ i = SumChunks(metrics_file[1].processed_documents)

-----------------------------------------------------------------------------
(* Further claims about s3_document_provider, checked under SpecProv       *)

\* C16 as stated: downloads of distinct keys are recorded with distinct local paths:
\* document_paths has no duplicate and no download overwrites the local file of an
\* earlier download of the run.
C16_DistinctLocalPaths ==
    /\ \A j \in 1..Len(downloaded_files) : \A k \in (j+1)..Len(downloaded_files) :
          downloaded_files[j].file_path # downloaded_files[k].file_path
    /\ \A k \in 1..Len(downloaded_files) :
          local_fs[downloaded_files[k].file_path] = downloaded_files[k].key

-----------------------------------------------------------------------------
(* run_local_pipeline: values and helpers                                  *)

\* tempfile.mkdtemp(prefix="rag_pipeline_"), and the two files the run keeps in it
temp_dir == <<"/","w">>
document_provider_output == PathJoin(temp_dir, <<"o",".","j","s","o","n">>)
metrics_output == PathJoin(temp_dir, <<"m",".","j","s","o","n">>)

\* the local_files_dir arguments tried: None, "" and a directory
LocalDirs == { <<>>, << <<>> >>, << <<"/","l">> >> }

\* the directory's contents tried
DirListings == { <<>>,
                 << <<"x",".","p","d","f">> >>,
                 << <<"x",".","p","d","f">>, <<"y",".","P","D","F">> >> }

\* the bucket listings tried by the driver: at most one page, of these objects
DriverKeys == { <<"a","/","r",".","p","d","f">>, <<"n",".","t","x","t">>,
                <<"s",".","P","D","F">> }
DriverListings ==
    { l \in Listings :
        /\ Len(l) <= 1
        /\ \A p \in 1..Len(l) : \A n \in 1..Len(l[p].Contents) :
               l[p].Contents[n].Key \in DriverKeys }

ValueError == "local_files_dir must be provided when use_local_files=True"
ListingError == "list_objects_v2 failed"

\* a check that takes only None for a missing directory
MissingDirNoneOnly(dir) == dir = <<>>

\* line 80: not local_files_dir
MissingDir(dir) == IF dir = <<>> THEN TRUE ELSE dir[1] = <<>>

\* line 85: Path(local_files_dir).glob(f"*{ext}"), in directory order
RECURSIVE Glob(_, _, _)
Glob(dir, names, ext) ==
    IF names = <<>> THEN <<>>
    ELSE (IF EndsWith(Head(names), ext) THEN <<PathJoin(dir, Head(names))>> ELSE <<>>)
         \o Glob(dir, Tail(names), ext)

\* lines 83-86: the matches of every extension, one after another
RECURSIVE GlobAll(_, _, _)
GlobAll(dir, names, exts) ==
    IF exts = <<>> THEN <<>>
    ELSE Glob(dir, names, Head(exts)) \o GlobAll(dir, names, Tail(exts))

\* lines 88-95
LocalResult(document_paths, dir) ==
    [document_paths |-> document_paths,
     metadata |-> [source |-> "local_files", file_count |-> Len(document_paths),
                   directory |-> dir]]

\* json.load of the manifest the first step wrote
LoadManifest(result) ==
    JsonDict(("document_paths" :> result.document_paths) @@ ("metadata" :> result.metadata))

\* a cleanup that runs only after the return statement
RemoveTempDirOnReturn(cl, exc) == cl /\ exc = <<>>

\* lines 171-174: finally: if cleanup: shutil.rmtree(temp_dir)
RemoveTempDir(cl, exc) == cl

-----------------------------------------------------------------------------
(* run_local_pipeline: Init and actions                                    *)

DrvInputs ==
    /\ cleanup \in BOOLEAN
    /\ use_local_files \in BOOLEAN
    /\ file_extensions = << <<".","p","d","f">> >>
    /\ IF use_local_files
       THEN /\ local_files_dir \in LocalDirs
            /\ dir_files \in (IF MissingDir(local_files_dir) THEN {<<>>} ELSE DirListings)
            /\ pages = <<>>
            /\ max_files = MaxCap
       ELSE /\ local_files_dir = <<>>
            /\ dir_files = <<>>
            /\ pages \in DriverListings
            /\ max_files \in 1..MaxCap

DrvInit ==
    /\ DrvInputs
    /\ d_pc = "start"
    /\ temp_dir_exists = FALSE
    /\ metrics = <<>>
    /\ d_ret = <<>>
    /\ d_exc = <<>>
    /\ p_pc = "idle"
    /\ ProvFresh
    /\ document_path = PlainPath
    /\ fs_isfile = FALSE
    /\ file_content = [ok |-> FALSE, value |-> JsonScalar]
    /\ pc = "idle"
    /\ ProcFresh

\* lines 66-76
Mkdtemp ==
    /\ d_pc = "start"
    /\ temp_dir_exists' = TRUE
    /\ d_pc' = "step1"
    /\ UNCHANGED <<use_local_files, local_files_dir, cleanup, dir_files, metrics, d_ret, d_exc>>
    /\ UNCHANGED <<proc_vars, prov_vars>>

\* lines 78-81: the ValueError leaves the try block for the finally clause
ConfigError ==
    /\ d_pc = "step1"
    /\ use_local_files
    /\ MissingDir(local_files_dir)
    /\ d_exc' = <<ValueError>>
    /\ d_pc' = "finally"
    /\ UNCHANGED <<use_local_files, local_files_dir, cleanup, dir_files, temp_dir_exists,
                   metrics, d_ret>>
    /\ UNCHANGED <<proc_vars, prov_vars>>

\* lines 78-101: the manifest of the local files
LocalFiles ==
    /\ d_pc = "step1"
    /\ use_local_files
    /\ ~MissingDir(local_files_dir)
    /\ LET document_paths == GlobAll(local_files_dir[1], dir_files, file_extensions) IN
       output_file' = <<LocalResult(document_paths, local_files_dir[1])>>
    /\ d_pc' = "step2"
    /\ UNCHANGED <<use_local_files, local_files_dir, cleanup, dir_files, temp_dir_exists,
                   metrics, d_ret, d_exc>>
    /\ UNCHANGED <<pages, file_extensions, max_files, p_pc, page_idx, obj_idx,
                   downloaded_files, file_count, visited, download_calls, local_fs>>
    /\ UNCHANGED proc_vars

\* lines 103-124: the call of s3_document_provider
CallProvider ==
    /\ d_pc = "step1"
    /\ ~use_local_files
    /\ p_pc' = "pages"
    /\ d_pc' = "in_provider"
    /\ UNCHANGED <<use_local_files, local_files_dir, cleanup, dir_files, temp_dir_exists,
                   metrics, d_ret, d_exc>>
    /\ UNCHANGED <<pages, file_extensions, max_files, page_idx, obj_idx,
                   downloaded_files, file_count, visited, download_calls, local_fs,
                   output_file>>
    /\ UNCHANGED proc_vars

\* s3_document_provider lines 58-66: the listing request raises, outside every try
\* of the provider, and the exception passes through line 113 to the finally clause
ProviderRaises ==
    /\ d_pc = "in_provider"
    /\ p_pc = "pages"
    /\ p_pc' = "raised"
    /\ d_exc' = <<ListingError>>
    /\ d_pc' = "finally"
    /\ UNCHANGED <<use_local_files, local_files_dir, cleanup, dir_files, temp_dir_exists,
                   metrics, d_ret>>
    /\ UNCHANGED <<pages, file_extensions, max_files, page_idx, obj_idx,
                   downloaded_files, file_count, visited, download_calls, local_fs,
                   output_file>>
    /\ UNCHANGED proc_vars

\* lines 126-130: the provider returned
ProviderReturned ==
    /\ d_pc = "in_provider"
    /\ p_pc = "done"
    /\ d_pc' = "step2"
    /\ UNCHANGED <<use_local_files, local_files_dir, cleanup, dir_files, temp_dir_exists,
                   metrics, d_ret, d_exc>>
    /\ UNCHANGED <<proc_vars, prov_vars>>

\* lines 132-151: the call of rag_docling_component on the manifest
CallProcessor ==
    /\ d_pc = "step2"
    /\ document_path' = document_provider_output
    /\ fs_isfile' = (output_file # <<>>)
    /\ file_content' = [ok |-> TRUE, value |-> LoadManifest(output_file[1])]
    /\ pc' = "start"
    /\ d_pc' = "in_rag"
    /\ UNCHANGED <<use_local_files, local_files_dir, cleanup, dir_files, temp_dir_exists,
                   metrics, d_ret, d_exc>>
    /\ UNCHANGED <<documents, llama_documents, i, processing_metrics, doc_idx, chunk_count,
                   chunk, yielded, total_chunks, ret, convert_calls, raised, client_calls,
                   metrics_file, metrics_writes>>
    /\ UNCHANGED prov_vars

\* lines 153-169: the metrics are read back and the return statement is reached
ReadMetrics ==
    /\ d_pc = "in_rag"
    /\ pc = "done"
    /\ metrics' = metrics_file
    /\ d_pc' = "finally"
    /\ UNCHANGED <<use_local_files, local_files_dir, cleanup, dir_files, temp_dir_exists,
                   d_ret, d_exc>>
    /\ UNCHANGED <<proc_vars, prov_vars>>

\* lines 171-176: the finally clause, then the return or the pending exception
Finally ==
    /\ d_pc = "finally"
    /\ IF RemoveTempDir(cleanup, d_exc)
       THEN /\ temp_dir_exists' = FALSE
            /\ output_file' = <<>>
            /\ metrics_file' = <<>>
            /\ local_fs' = <<>>
       ELSE UNCHANGED <<temp_dir_exists, output_file, metrics_file, local_fs>>
    /\ d_ret' = (IF d_exc = <<>> THEN metrics ELSE <<>>)
    /\ d_pc' = (IF d_exc = <<>> THEN "returned" ELSE "raised")
    /\ UNCHANGED <<use_local_files, local_files_dir, cleanup, dir_files, metrics, d_exc>>
    /\ UNCHANGED <<document_path, fs_isfile, file_content, pc, documents, llama_documents, i,
                   processing_metrics, doc_idx, chunk_count, chunk, yielded, total_chunks,
                   ret, convert_calls, raised, client_calls, metrics_writes>>
    /\ UNCHANGED <<pages, file_extensions, max_files, p_pc, page_idx, obj_idx,
                   downloaded_files, file_count, visited, download_calls>>

\* one run of run_local_pipeline, with the two components it calls
NextDriver ==
    \/ Mkdtemp
    \/ ConfigError
    \/ LocalFiles
    \/ CallProvider
    \/ ProviderRaises
    \/ ProviderReturned
    \/ CallProcessor
    \/ ReadMetrics
    \/ Finally
    \/ NextProv
    \/ NextProc

SpecDriver == DrvInit /\ [][NextDriver]_vars

-----------------------------------------------------------------------------
(* Claims about both components, checked under SpecRuns                    *)

\* C14: nothing is retried: register and insert are each called once per Processor
\* run, register first and both only after every document was attempted; every
\* manifest entry is converted once; the Provider calls download_file at most once
\* per listed object, whether the call succeeds or fails.
C14_NoRetry ==
    /\ Len(client_calls) <= 2
    /\ Len(client_calls) >= 1 =>
          /\ client_calls[1].op = "register"
          /\ convert_calls = documents
          /\ pc \in {"insert", "write", "done"}
    /\ Len(client_calls) = 2 =>
          /\ client_calls[2].op = "insert"
          /\ pc \in {"write", "done"}
    /\ pc = "done" => Len(client_calls) = 2
    /\ Len(convert_calls) <= Len(documents)
    /\ convert_calls = SubSeq(documents, 1, Len(convert_calls))
    /\ \A j \in 1..Len(download_calls) : \A k \in (j+1)..Len(download_calls) :
          download_calls[j].key # download_calls[k].key
    /\ \A k \in 1..Len(download_calls) :
          \E n \in 1..Len(ListedKeys(pages)) : ListedKeys(pages)[n] = download_calls[k].key

C14_Witness ==
    /\ pc = "done"
    /\ documents = << <<"a">>, <<"a">> >>
    /\ raised = <<[file |-> <<"a">>, error |-> ConvertError]>>
    /\ Len(processing_metrics.processed_documents) = 1
    /\ client_calls[1].ok
    /\ ~client_calls[2].ok

-----------------------------------------------------------------------------
(* Claims about run_local_pipeline, checked under SpecDriver               *)

\* C11: called with use_local_files=True and no local_files_dir (None or ""), the
\* driver raises the ValueError as its first step after creating the temporary
\* directory: no manifest is written, neither component is invoked, no metrics file
\* is written and nothing is returned.
C11_ConfigErrorBeforeAnyOutput ==
    (use_local_files /\ local_files_dir \in {<<>>, << <<>> >>}) =>
        /\ output_file = <<>>
        /\ p_pc = "idle" /\ download_calls = <<>>
        /\ pc = "idle" /\ convert_calls = <<>> /\ client_calls = <<>>
        /\ metrics_file = <<>> /\ metrics_writes = 0
        /\ metrics = <<>> /\ d_ret = <<>>
        /\ d_pc \in {"start", "step1", "finally", "raised"}
        /\ d_pc = "step1" =>
              ENABLED ConfigError /\ ~ENABLED LocalFiles /\ ~ENABLED CallProvider
        /\ d_pc \in {"finally", "raised"} => d_exc = <<ValueError>>

C11_Witness ==
    /\ d_pc = "raised"
    /\ use_local_files
    /\ local_files_dir = << <<>> >>
    /\ d_exc = <<ValueError>>
    /\ ~cleanup
    /\ temp_dir_exists

\* C12: the temporary directory exists from mkdtemp until the finally clause; once
\* the run has returned or raised it is gone, with the files in it, exactly when
\* cleanup is true; and the value returned is the metrics the Processor wrote, read
\* back before the directory was removed.
C12_TempDirRemovedAtEnd ==
    /\ d_pc \in {"step1", "in_provider", "step2", "in_rag", "finally"} => temp_dir_exists
    /\ d_pc \in {"returned", "raised"} => (temp_dir_exists <=> ~cleanup)
    /\ (d_pc \in {"returned", "raised"} /\ cleanup) =>
          output_file = <<>> /\ metrics_file = <<>> /\ local_fs = <<>>
    /\ (d_pc = "in_rag" /\ pc = "done") => metrics_file = <<processing_metrics>>
    /\ d_pc = "returned" =>
          /\ d_exc = <<>>
          /\ d_ret = <<processing_metrics>>
          /\ ~cleanup => metrics_file = d_ret
    /\ d_pc = "raised" => d_exc # <<>> /\ d_ret = <<>>

C12_Witness ==
    /\ d_pc = "raised"
    /\ cleanup
    /\ ~temp_dir_exists
    /\ d_exc = <<ListingError>>
    /\ Len(download_calls) >= 1
    /\ local_fs = <<>>

====
